---- MODULE Spec2Model ----
(***************************************************************************)
(* Verification model of four pieces of the DevTools front-end:            *)
(*   - the initiator pairs drawn on the performance flamechart             *)
(*     (eventInitiatorPairsToDraw),                                        *)
(*   - the navigation calls of the BiDi frame (BidiFrame),                 *)
(*   - the array utilities exercised by the ArrayUtilities unit test,      *)
(*   - the visual logging driver (LoggingDriver).                          *)
(* Each piece has its own specification over its own variables; the        *)
(* variables of the other pieces stay at their idle values.                *)
(***************************************************************************)
EXTENDS Integers, Sequences, FiniteSets, TLC

\* ------------------------------------------------------------------------
\* Bounds of the model
\* ------------------------------------------------------------------------
MaxEvents == 3
MaxCalls == 2
MaxNames == 2
MaxFunctions == 2
MaxExposeCalls == 3
MaxLength == 4
MaxValue == 3
MaxElements == 2
MaxLoggables == 2
MaxDocuments == 2
MaxPending == 1
MaxImpressions == 2

\* ========================================================================
\* Part 1: initiator pairs (eventInitiatorPairsToDraw)
\* ========================================================================

\* JavaScript's null / undefined (a missing map entry, a missing parent).
None == 0

\* The trace events of the parsed trace.
Events == 1 .. MaxEvents

VARIABLES
  traceEngineData,  \* the parsed trace: Initiators and Renderer data
  selectedEvent,    \* the event the user selected
  currentEvent,     \* findEventInitiatorPairsPredecessors: loop variable
  pairs,            \* findEventInitiatorPairsPredecessors: pairs so far
  iterations,       \* number of loop iterations started so far
  ipc,              \* position: "walk", "successors", "done"
  result            \* what eventInitiatorPairsToDraw returned

initiatorVars ==
  <<traceEngineData, selectedEvent, currentEvent, pairs, iterations, ipc, result>>

\* BidiFrame: navigation calls and disposal
VARIABLES
  disposed,       \* #disposed
  abortDeferred,  \* #abortDeferred: "pending" or "rejected"
  callKind,       \* per call: which method was called
  callState,      \* per call: where its promise stands
  callEvents,     \* per call: what happened to it since it was made, in order
  microtasks,     \* promise reactions queued on the event loop
  navigateSent,   \* calls that sent browsingContext.navigate
  contentSet      \* calls that ran setPageContent

navigationVars ==
  <<disposed, abortDeferred, callKind, callState, callEvents, microtasks,
    navigateSent, contentSet>>

\* BidiFrame: exposed functions
VARIABLES
  exposedFunctions,  \* #exposedFunctions: name -> function
  exposing,          \* names whose expose() has not settled yet
  exposeCalls,       \* how many times expose() was called
  exposeOutcome      \* how the last exposeFunction call went on

exposeVars == <<exposedFunctions, exposing, exposeCalls, exposeOutcome>>

\* ArrayUtilities: removeElement and sortRange
VARIABLES
  array,       \* the array the call works on, in place
  fixture,     \* the array as it was before the call
  arrayCall,   \* the call: the function and its arguments
  sortStack,   \* quickSortRange calls still to run, innermost first
  apc          \* position: "idle", "call", "sorting", "done"

arrayVars == <<array, fixture, arrayCall, sortStack, apc>>

\* LoggingDriver: the module state, the DOM it reads and what it reported
VARIABLES
  logging,              \* let logging
  processingThrottler,  \* let processingThrottler: "null" or "throttler"
  scheduled,            \* the current throttler holds a process() to run
  staleRuns,            \* process() runs held by throttlers no longer current
  documents,            \* const documents
  observed,             \* documents with scroll, visibility and mutation listeners
  documentHidden,       \* document.hidden
  dom,                  \* per element: "detached", "offscreen" or "visible"
  selectOpen,           \* elements whose logging state has selectOpen set
  loggingState,         \* per loggable: impressionLogged, processed
  registry,             \* the registered non-DOM loggables
  impressions,          \* per loggable: in how many logImpressions batches
  attachments,          \* per element: how often listeners were attached
  ranSinceStop          \* did process() run since stopLogging: "no", "ran", "reported"

loggingVars ==
  <<logging, processingThrottler, scheduled, staleRuns, documents, observed,
    documentHidden, dom, selectOpen, loggingState, registry, impressions,
    attachments, ranSinceStop>>

vars == <<initiatorVars, navigationVars, exposeVars, arrayVars, loggingVars>>

\* What the steps of one part leave alone: the variables of the other parts.
notInitiatorVars == <<navigationVars, exposeVars, arrayVars, loggingVars>>

notNavigationVars == <<initiatorVars, exposeVars, arrayVars, loggingVars>>

notExposeVars == <<initiatorVars, navigationVars, arrayVars, loggingVars>>

notArrayVars == <<initiatorVars, navigationVars, exposeVars, loggingVars>>

notLoggingVars == <<initiatorVars, navigationVars, exposeVars, arrayVars>>

\* An InitiatorPair {event, initiator}.
InitiatorPair(e, i) == [event |-> e, initiator |-> i]

\* Renderer.entryToNode restricted to what the walk reads: the entry of the
\* node's parent (None for a root). Only synthetic entries have nodes. Events
\* are numbered in trace order, so a parent entry, which starts before its
\* children, has the smaller number: the parent pointers form a forest.
EntryTrees(synthetic) ==
  { t \in UNION { [D -> Events \cup {None}] : D \in SUBSET synthetic } :
      \A e \in DOMAIN t : t[e] = None \/ (t[e] \in DOMAIN t /\ t[e] < e) }

\* Initiators.initiatorToEvents: the index of the events each initiator
\* initiated, in trace order. An initiator that initiated nothing has no entry.
RECURSIVE EventsInitiatedBy(_, _, _)
EventsInitiatedBy(eventToInitiator, i, e) ==
  IF e > MaxEvents THEN <<>>
  ELSE (IF eventToInitiator[e] = i THEN <<e>> ELSE <<>>)
         \o EventsInitiatedBy(eventToInitiator, i, e + 1)

InitiatorToEvents(eventToInitiator) ==
  [i \in {j \in Events : \E e \in Events : eventToInitiator[e] = j} |->
     EventsInitiatedBy(eventToInitiator, i, 1)]

\* The initiator part before any call (used by the other specifications).
IdleInitiators ==
  /\ traceEngineData = <<>>
  /\ selectedEvent = None
  /\ currentEvent = None
  /\ pairs = <<>>
  /\ iterations = 0
  /\ ipc = "idle"
  /\ result = <<>>

StartInitiators ==
  /\ \E s \in SUBSET Events :
       \E t \in EntryTrees(s) :
         \E m \in [Events -> Events \cup {None}] :
           traceEngineData =
             [eventToInitiator |-> m,
              initiatorToEvents |-> InitiatorToEvents(m),
              synthetic |-> s,
              entryToNode |-> t]
  /\ selectedEvent \in Events
  /\ currentEvent = selectedEvent
  /\ pairs = <<>>
  /\ iterations = 0
  /\ ipc = "walk"
  /\ result = <<>>

\* TraceEngine.Types.TraceEvents.isSyntheticTraceEntry(event)
isSyntheticTraceEntry(e) == e \in traceEngineData.synthetic

\* The loop runs while (currentEvent); the guard on iterations caps the
\* model where the code would loop for ever.
InLoop ==
  /\ ipc = "walk"
  /\ currentEvent # None
  /\ iterations <= MaxEvents

\* Variant with a fault: the walk stops after the first pair.
WalkInitiatorMutantStop ==
  /\ InLoop
  /\ traceEngineData.eventToInitiator[currentEvent] # None
  /\ pairs' = Append(pairs,
       InitiatorPair(currentEvent, traceEngineData.eventToInitiator[currentEvent]))
  /\ currentEvent' = None
  /\ iterations' = iterations + 1
  /\ UNCHANGED <<traceEngineData, selectedEvent, ipc, result>>
  /\ UNCHANGED notInitiatorVars

\* Variant with a fault: the parent step comes before the initiator check.
WalkInitiatorMutantParentFirst ==
  /\ InLoop
  /\ traceEngineData.eventToInitiator[currentEvent] # None
  /\ IF /\ currentEvent \in DOMAIN traceEngineData.entryToNode
        /\ traceEngineData.entryToNode[currentEvent] # None
     THEN /\ currentEvent' = traceEngineData.entryToNode[currentEvent]
          /\ UNCHANGED pairs
     ELSE /\ pairs' = Append(pairs,
               InitiatorPair(currentEvent, traceEngineData.eventToInitiator[currentEvent]))
          /\ currentEvent' = traceEngineData.eventToInitiator[currentEvent]
  /\ iterations' = iterations + 1
  /\ UNCHANGED <<traceEngineData, selectedEvent, ipc, result>>
  /\ UNCHANGED notInitiatorVars

\* if (currentInitiator) { pairs.push(...); currentEvent = currentInitiator;
\* continue; }
WalkInitiator ==
  /\ InLoop
  /\ traceEngineData.eventToInitiator[currentEvent] # None
  /\ pairs' = Append(pairs,
       InitiatorPair(currentEvent, traceEngineData.eventToInitiator[currentEvent]))
  /\ currentEvent' = traceEngineData.eventToInitiator[currentEvent]
  /\ iterations' = iterations + 1
  /\ UNCHANGED <<traceEngineData, selectedEvent, ipc, result>>
  /\ UNCHANGED notInitiatorVars

\* if (!isSyntheticTraceEntry(currentEvent)) { currentEvent = null; break; }
WalkNotSynthetic ==
  /\ InLoop
  /\ traceEngineData.eventToInitiator[currentEvent] = None
  /\ ~isSyntheticTraceEntry(currentEvent)
  /\ currentEvent' = None
  /\ iterations' = iterations + 1
  /\ UNCHANGED <<traceEngineData, selectedEvent, pairs, ipc, result>>
  /\ UNCHANGED notInitiatorVars

\* if (!nodeForCurrentEvent) { currentEvent = null; break; }
WalkNoNode ==
  /\ InLoop
  /\ traceEngineData.eventToInitiator[currentEvent] = None
  /\ isSyntheticTraceEntry(currentEvent)
  /\ currentEvent \notin DOMAIN traceEngineData.entryToNode
  /\ currentEvent' = None
  /\ iterations' = iterations + 1
  /\ UNCHANGED <<traceEngineData, selectedEvent, pairs, ipc, result>>
  /\ UNCHANGED notInitiatorVars

\* Variant with a fault: the walk does not move to the parent.
WalkParentMutantStay ==
  /\ InLoop
  /\ traceEngineData.eventToInitiator[currentEvent] = None
  /\ isSyntheticTraceEntry(currentEvent)
  /\ currentEvent \in DOMAIN traceEngineData.entryToNode
  /\ currentEvent' = currentEvent
  /\ iterations' = iterations + 1
  /\ UNCHANGED <<traceEngineData, selectedEvent, pairs, ipc, result>>
  /\ UNCHANGED notInitiatorVars

\* Variant with a fault: the parent step records a pair for the current event.
WalkParentMutantPush ==
  /\ InLoop
  /\ traceEngineData.eventToInitiator[currentEvent] = None
  /\ isSyntheticTraceEntry(currentEvent)
  /\ currentEvent \in DOMAIN traceEngineData.entryToNode
  /\ pairs' = IF traceEngineData.entryToNode[currentEvent] = None THEN pairs
              ELSE Append(pairs,
                     InitiatorPair(currentEvent, traceEngineData.entryToNode[currentEvent]))
  /\ currentEvent' = traceEngineData.entryToNode[currentEvent]
  /\ iterations' = iterations + 1
  /\ UNCHANGED <<traceEngineData, selectedEvent, ipc, result>>
  /\ UNCHANGED notInitiatorVars

\* currentEvent = nodeForCurrentEvent.parent?.entry || null;
WalkParent ==
  /\ InLoop
  /\ traceEngineData.eventToInitiator[currentEvent] = None
  /\ isSyntheticTraceEntry(currentEvent)
  /\ currentEvent \in DOMAIN traceEngineData.entryToNode
  /\ currentEvent' = traceEngineData.entryToNode[currentEvent]
  /\ iterations' = iterations + 1
  /\ UNCHANGED <<traceEngineData, selectedEvent, pairs, ipc, result>>
  /\ UNCHANGED notInitiatorVars

\* The loop condition fails (or a branch broke out): return pairs.
ReturnPredecessors ==
  /\ ipc = "walk"
  /\ currentEvent = None
  /\ ipc' = "successors"
  /\ UNCHANGED <<traceEngineData, selectedEvent, currentEvent, pairs, iterations, result>>
  /\ UNCHANGED notInitiatorVars

\* findEventInitiatorPairsDirectSuccessors(traceEngineData, selectedEvent)
RECURSIVE PairsInitiatedBy(_, _)
PairsInitiatedBy(events, initiator) ==
  IF events = <<>> THEN <<>>
  ELSE <<InitiatorPair(Head(events), initiator)>>
         \o PairsInitiatedBy(Tail(events), initiator)

RECURSIVE PairsInitiating(_, _)
PairsInitiating(events, initiated) ==
  IF events = <<>> THEN <<>>
  ELSE <<InitiatorPair(initiated, Head(events))>>
         \o PairsInitiating(Tail(events), initiated)

\* Variant with a fault: event and initiator swapped.
DirectSuccessorsMutantSwapped(data, selected) ==
  IF selected \in DOMAIN data.initiatorToEvents
  THEN PairsInitiating(data.initiatorToEvents[selected], selected)
  ELSE <<>>

RECURSIVE PairsTransitive(_, _, _)
PairsTransitive(data, events, initiator) ==
  IF events = <<>> THEN <<>>
  ELSE <<InitiatorPair(Head(events), initiator)>>
         \o (IF Head(events) \in DOMAIN data.initiatorToEvents /\ Head(events) # initiator
             THEN PairsInitiatedBy(data.initiatorToEvents[Head(events)], Head(events))
             ELSE <<>>)
         \o PairsTransitive(data, Tail(events), initiator)

\* Variant with a fault: also the events initiated by the initiated events.
DirectSuccessorsMutantTransitive(data, selected) ==
  IF selected \in DOMAIN data.initiatorToEvents
  THEN PairsTransitive(data, data.initiatorToEvents[selected], selected)
  ELSE <<>>

findEventInitiatorPairsDirectSuccessors(data, selected) ==
  IF selected \in DOMAIN data.initiatorToEvents
  THEN PairsInitiatedBy(data.initiatorToEvents[selected], selected)
  ELSE <<>>

\* return [...predecessors, ...successors];
EventInitiatorPairsToDraw ==
  /\ ipc = "successors"
  /\ result' = pairs \o findEventInitiatorPairsDirectSuccessors(traceEngineData, selectedEvent)
  /\ ipc' = "done"
  /\ UNCHANGED <<traceEngineData, selectedEvent, currentEvent, pairs, iterations>>
  /\ UNCHANGED notInitiatorVars

StepInitiators ==
  \/ WalkInitiator
  \/ WalkNotSynthetic
  \/ WalkNoNode
  \/ WalkParent
  \/ ReturnPredecessors
  \/ EventInitiatorPairsToDraw

\* ------------------------------------------------------------------------
\* Claims about the initiator pairs
\* ------------------------------------------------------------------------

\* The events a list holds.
Elements(list) == { list[i] : i \in 1 .. Len(list) }

\* The list initiatorToEvents holds for an event; empty when it has no entry.
InitiatedBy(e) ==
  IF e \in DOMAIN traceEngineData.initiatorToEvents
  THEN traceEngineData.initiatorToEvents[e]
  ELSE <<>>

\* C1: every pair {event, initiator} that eventInitiatorPairsToDraw returns is
\* an initiator relation of the trace data: eventToInitiator[event] = initiator,
\* or initiator is the selected event and event is in
\* initiatorToEvents[selected].
C1_PairsAreInitiatorRelations ==
  ipc = "done" =>
    \A i \in 1 .. Len(result) :
      \/ traceEngineData.eventToInitiator[result[i].event] = result[i].initiator
      \/ /\ result[i].initiator = selectedEvent
         /\ result[i].event \in Elements(InitiatedBy(selectedEvent))

\* A result holding a predecessor pair and a successor pair.
C1_Witness ==
  /\ ipc = "done"
  /\ Len(pairs) >= 1
  /\ Len(result) > Len(pairs)

\* One step of the backward walk, read off the trace data: the initiator when
\* there is one, else the entry of the parent node, else nothing.
WalkStep(e) ==
  IF traceEngineData.eventToInitiator[e] # None
  THEN traceEngineData.eventToInitiator[e]
  ELSE IF e \in traceEngineData.synthetic /\ e \in DOMAIN traceEngineData.entryToNode
  THEN traceEngineData.entryToNode[e]
  ELSE None

\* The events the walk reaches when it starts at e.
RECURSIVE ReachedFrom(_, _)
ReachedFrom(e, fuel) ==
  IF e = None \/ fuel = 0 THEN {}
  ELSE {e} \cup ReachedFrom(WalkStep(e), fuel - 1)

\* The indices of the predecessor pairs of the result: in a finished walk no
\* predecessor pair has the selected event as its initiator.
PredecessorIndices == { i \in 1 .. Len(result) : result[i].initiator # selectedEvent }

\* C2: the whole backward chain is drawn. Every event the walk reaches from the
\* selected event that has an initiator contributes the pair (event, its
\* initiator); the predecessor pairs are in walk order, nearest to the selected
\* event first, and come before all successor pairs.
C2_EntireBackwardChain ==
  ipc = "done" =>
    /\ \A e \in ReachedFrom(selectedEvent, MaxEvents) :
         traceEngineData.eventToInitiator[e] # None =>
           \E i \in PredecessorIndices :
             result[i] = InitiatorPair(e, traceEngineData.eventToInitiator[e])
    /\ \A i \in PredecessorIndices :
         /\ result[i].event \in ReachedFrom(selectedEvent, MaxEvents)
         /\ \A j \in PredecessorIndices :
              i < j => result[j].event \in ReachedFrom(result[i].initiator, MaxEvents)
    /\ \A i \in 1 .. Len(result) :
         i \notin PredecessorIndices => \A j \in PredecessorIndices : j < i

\* A chain of at least two predecessor pairs was drawn.
C2_Witness ==
  /\ ipc = "done"
  /\ Cardinality(PredecessorIndices) >= 2

\* C3: the successor part of the result holds exactly one pair
\* {event: e, initiator: selected} for each e of initiatorToEvents[selected],
\* in the order of that list, and nothing else; it is empty when the selected
\* event has no entry.
C3_DirectSuccessorsOnly ==
  ipc = "done" =>
    /\ Len(result) = Len(pairs) + Len(InitiatedBy(selectedEvent))
    /\ \A k \in 1 .. Len(InitiatedBy(selectedEvent)) :
         result[Len(pairs) + k] =
           InitiatorPair(InitiatedBy(selectedEvent)[k], selectedEvent)

\* The selected event initiated an event that itself initiated another one.
C3_Witness ==
  /\ ipc = "done"
  /\ \E e \in Elements(InitiatedBy(selectedEvent)) :
       /\ e # selectedEvent
       /\ InitiatedBy(e) # <<>>
       /\ \A k \in 1 .. Len(result) : result[k].initiator # e

\* The events one step away from e along an initiator edge or a parent edge.
EdgesFrom(e) ==
  ({traceEngineData.eventToInitiator[e]}
     \cup (IF e \in DOMAIN traceEngineData.entryToNode
           THEN {traceEngineData.entryToNode[e]} ELSE {})) \ {None}

RECURSIVE ReachableIn(_, _)
ReachableIn(from, fuel) ==
  IF fuel = 0 THEN from
  ELSE ReachableIn(from \cup UNION { EdgesFrom(e) : e \in from }, fuel - 1)

\* No event reaches itself along initiator and parent edges (initiators and
\* parents precede their events in the trace).
AcyclicTraceData ==
  \A e \in Events : e \notin ReachableIn(EdgesFrom(e), MaxEvents)

\* C10 as stated: for every trace data the walk makes at most as many
\* iterations as there are events.
C10_TerminatesForEveryTraceData ==
  iterations <= Cardinality(Events)

\* C10, amended: when no event reaches itself along initiator and parent
\* edges, the walk makes at most as many iterations as there are events, a
\* step is possible until the pairs are returned, and the result has at most
\* as many predecessor pairs as there are events.
C10_TerminatesOnAcyclicTraceData ==
  (/\ iterations <= Cardinality(Events)
   /\ (ipc # "done" => ENABLED StepInitiators)
   /\ Len(pairs) <= Cardinality(Events))
  \/ ~AcyclicTraceData

\* A walk over acyclic trace data that visited every event and returned.
C10_Witness ==
  /\ ipc = "done"
  /\ AcyclicTraceData
  /\ iterations = Cardinality(Events)

\* The walk is inside its loop at an event.
Walking == ipc = "walk" /\ currentEvent # None

\* The event has a node in Renderer.entryToNode the walk can use.
HasNode(e) == e \in traceEngineData.synthetic /\ e \in DOMAIN traceEngineData.entryToNode

\* The nearest event with an initiator on the way up from e along parent
\* entries, e included; None when the way up ends before one is found.
RECURSIVE NearestWithInitiator(_, _)
NearestWithInitiator(e, fuel) ==
  IF e = None \/ fuel = 0 THEN None
  ELSE IF traceEngineData.eventToInitiator[e] # None THEN e
  ELSE IF HasNode(e) THEN NearestWithInitiator(traceEngineData.entryToNode[e], fuel - 1)
  ELSE None

\* C11: when the current event has no initiator but is a synthetic entry with
\* a node, the step of the walk moves to the entry of the node's parent and
\* records no pair. So when the selected event has no initiator, the first
\* pair of a returned walk is {A, eventToInitiator[A]} for the nearest
\* ancestor A that has an initiator (no pair at all when there is none), and
\* no pair has the selected event as its event.
C11_ParentStepRecordsNoPair ==
  /\ [][(/\ Walking
          /\ traceEngineData.eventToInitiator[currentEvent] = None
          /\ HasNode(currentEvent))
         => /\ currentEvent' = traceEngineData.entryToNode[currentEvent]
            /\ pairs' = pairs]_vars
  /\ [](ipc = "done" /\ traceEngineData.eventToInitiator[selectedEvent] = None
         => IF NearestWithInitiator(selectedEvent, MaxEvents) = None
            THEN pairs = <<>>
            ELSE /\ pairs # <<>>
                 /\ result[1] =
                      InitiatorPair(
                        NearestWithInitiator(selectedEvent, MaxEvents),
                        traceEngineData.eventToInitiator[
                          NearestWithInitiator(selectedEvent, MaxEvents)])
                 /\ \A i \in 1 .. Len(pairs) : pairs[i].event # selectedEvent)

\* A returned walk whose selected event has no initiator and whose first pair
\* is that of its parent, which itself has a parent the walk did not take.
C11_Witness ==
  /\ ipc = "done"
  /\ traceEngineData.eventToInitiator[selectedEvent] = None
  /\ HasNode(selectedEvent)
  /\ pairs # <<>>
  /\ pairs[1].event = traceEngineData.entryToNode[selectedEvent]
  /\ HasNode(pairs[1].event)
  /\ traceEngineData.entryToNode[pairs[1].event] # None

\* The walk cannot go on from e: no initiator, and not synthetic, or no node,
\* or a node without a parent.
StopsAt(e) ==
  /\ traceEngineData.eventToInitiator[e] = None
  /\ \/ e \notin traceEngineData.synthetic
     \/ e \notin DOMAIN traceEngineData.entryToNode
     \/ traceEngineData.entryToNode[e] = None

\* C12: at an event where the walk cannot go on, the step ends the loop and
\* adds no pair, and no pair is added once the loop has ended; at an event
\* with an initiator the step records the pair and moves to the initiator,
\* whether or not the event has a parent. A returned walk holds its pairs
\* unchanged at the front of the result, and no event with an initiator lies
\* on the way up from the initiator of its last pair.
C12_StopsWithoutFurtherPairs ==
  /\ [][(Walking /\ StopsAt(currentEvent))
         => currentEvent' = None /\ pairs' = pairs]_vars
  /\ [][~Walking => pairs' = pairs /\ currentEvent' = currentEvent]_vars
  /\ [][(Walking /\ traceEngineData.eventToInitiator[currentEvent] # None)
         => /\ pairs' = Append(pairs,
                 InitiatorPair(currentEvent,
                               traceEngineData.eventToInitiator[currentEvent]))
            /\ currentEvent' = traceEngineData.eventToInitiator[currentEvent]]_vars
  /\ [](ipc = "done" =>
         /\ Len(result) >= Len(pairs)
         /\ \A i \in 1 .. Len(pairs) :
              /\ result[i] = pairs[i]
              /\ traceEngineData.eventToInitiator[pairs[i].event] = pairs[i].initiator
         /\ pairs # <<>> =>
              NearestWithInitiator(pairs[Len(pairs)].initiator, MaxEvents) = None)

\* A returned walk that recorded the pair of an event with a parent and then
\* stopped at an initiator that is not a synthetic entry.
C12_Witness ==
  /\ ipc = "done"
  /\ pairs # <<>>
  /\ HasNode(pairs[1].event)
  /\ traceEngineData.entryToNode[pairs[1].event] # None
  /\ pairs[Len(pairs)].initiator \notin traceEngineData.synthetic

\* ========================================================================
\* Part 2: BidiFrame (goto, setContent, waitForNavigation, dispose,
\* exposeFunction)
\* ========================================================================

\* The navigation calls the model follows.
Calls == 1 .. MaxCalls

NavigationMethods == {"goto", "setContent", "waitForNavigation"}

\* A call that got past throwIfDetached and subscribed to its race.
Subscribed(c) == callState[c] \in {"pending", "resolved", "rejectedTimeout", "rejectedDetached"}

IdleNavigation ==
  /\ disposed = FALSE
  /\ abortDeferred = "pending"
  /\ callKind = [c \in Calls |-> "none"]
  /\ callState = [c \in Calls |-> "notCalled"]
  /\ callEvents = [c \in Calls |-> <<>>]
  /\ microtasks = <<>>
  /\ navigateSent = {}
  /\ contentSet = {}

\* Variant with a fault: the frame never reports itself detached.
detachedMutantNever == FALSE

\* get detached() { return this.#disposed; }
detached == disposed

\* The throwIfDetached decorator: the call throws when the frame is detached
\* and runs the method otherwise.
throwIfDetached == detached

\* goto, setContent, waitForNavigation (each decorated with throwIfDetached):
\* goto sends browsingContext.navigate, setContent runs setPageContent, and
\* all three wait for the first of: the navigation condition, the timeout,
\* the rejection of #abortDeferred.
NavigationCall(c, method) ==
  /\ callState[c] = "notCalled"
  /\ callKind' = [callKind EXCEPT ![c] = method]
  /\ IF throwIfDetached
     THEN /\ callState' = [callState EXCEPT ![c] = "threw"]
          /\ UNCHANGED <<navigateSent, contentSet>>
     ELSE /\ callState' = [callState EXCEPT ![c] = "pending"]
          /\ navigateSent' = IF method = "goto" THEN navigateSent \cup {c} ELSE navigateSent
          /\ contentSet' = IF method = "setContent" THEN contentSet \cup {c} ELSE contentSet
  /\ UNCHANGED <<disposed, abortDeferred, callEvents, microtasks>>
  /\ UNCHANGED notNavigationVars

Goto(c) == NavigationCall(c, "goto")

SetContent(c) == NavigationCall(c, "setContent")

WaitForNavigation(c) == NavigationCall(c, "waitForNavigation")

\* The browser's answer arrives in a task of its own (the microtask queue is
\* empty then): the promise the call waits for resolves, and its reaction is
\* queued.
NavigationConditionMet(c) ==
  /\ Subscribed(c)
  /\ microtasks = <<>>
  /\ \A i \in 1 .. Len(callEvents[c]) : callEvents[c][i] # "navigated"
  /\ callEvents' = [callEvents EXCEPT ![c] = Append(@, "navigated")]
  /\ microtasks' = Append(microtasks, <<c, "navigated">>)
  /\ UNCHANGED <<disposed, abortDeferred, callKind, callState, navigateSent, contentSet>>
  /\ UNCHANGED notNavigationVars

\* Variant with a fault: the timeout rejects a call that has settled already.
TimeoutFiresMutantOverrides(c) ==
  /\ Subscribed(c)
  /\ microtasks = <<>>
  /\ \A i \in 1 .. Len(callEvents[c]) : callEvents[c][i] # "timeout"
  /\ callEvents' = [callEvents EXCEPT ![c] = Append(@, "timeout")]
  /\ callState' = [callState EXCEPT ![c] = "rejectedTimeout"]
  /\ UNCHANGED <<disposed, abortDeferred, callKind, microtasks, navigateSent, contentSet>>
  /\ UNCHANGED notNavigationVars

\* timeout(ms): the timer fires in a task of its own and errors the race
\* synchronously.
TimeoutFires(c) ==
  /\ Subscribed(c)
  /\ microtasks = <<>>
  /\ \A i \in 1 .. Len(callEvents[c]) : callEvents[c][i] # "timeout"
  /\ callEvents' = [callEvents EXCEPT ![c] = Append(@, "timeout")]
  /\ callState' = [callState EXCEPT ![c] =
       IF @ = "pending" THEN "rejectedTimeout" ELSE @]
  /\ UNCHANGED <<disposed, abortDeferred, callKind, microtasks, navigateSent, contentSet>>
  /\ UNCHANGED notNavigationVars

\* The reactions #abortDeferred.reject queues: one for every race that
\* subscribed to valueOrThrow().
RECURSIVE AbortReactions(_)
AbortReactions(c) ==
  IF c > MaxCalls THEN <<>>
  ELSE (IF Subscribed(c) THEN << <<c, "abort">> >> ELSE <<>>) \o AbortReactions(c + 1)

\* Variant with a fault: #abortDeferred is not rejected.
DisposeMutantNoAbort ==
  /\ IF disposed
     THEN UNCHANGED <<disposed, abortDeferred, callEvents, microtasks>>
     ELSE /\ disposed' = TRUE
          /\ UNCHANGED abortDeferred
          /\ callEvents' = [c \in Calls |->
               IF Subscribed(c) THEN Append(callEvents[c], "dispose") ELSE callEvents[c]]
          /\ UNCHANGED microtasks
  /\ UNCHANGED <<callKind, callState, navigateSent, contentSet>>
  /\ UNCHANGED notNavigationVars

\* [disposeSymbol](): returns when already disposed; else marks the frame
\* disposed and rejects #abortDeferred with 'Frame detached'.
Dispose ==
  /\ IF disposed
     THEN UNCHANGED <<disposed, abortDeferred, callEvents, microtasks>>
     ELSE /\ disposed' = TRUE
          /\ abortDeferred' = "rejected"
          /\ callEvents' = [c \in Calls |->
               IF Subscribed(c) THEN Append(callEvents[c], "dispose") ELSE callEvents[c]]
          /\ microtasks' = microtasks \o AbortReactions(1)
  /\ UNCHANGED <<callKind, callState, navigateSent, contentSet>>
  /\ UNCHANGED notNavigationVars

\* The event loop runs the oldest queued reaction: it settles the call's
\* firstValueFrom unless the race is already over.
RunMicrotask ==
  /\ microtasks # <<>>
  /\ microtasks' = Tail(microtasks)
  /\ callState' = [callState EXCEPT ![Head(microtasks)[1]] =
       IF @ # "pending" THEN @
       ELSE IF Head(microtasks)[2] = "navigated" THEN "resolved"
       ELSE "rejectedDetached"]
  /\ UNCHANGED <<disposed, abortDeferred, callKind, callEvents, navigateSent, contentSet>>
  /\ UNCHANGED notNavigationVars

StepNavigation ==
  \/ \E c \in Calls : Goto(c)
  \/ \E c \in Calls : SetContent(c)
  \/ \E c \in Calls : WaitForNavigation(c)
  \/ \E c \in Calls : NavigationConditionMet(c)
  \/ \E c \in Calls : TimeoutFires(c)
  \/ Dispose
  \/ RunMicrotask

\* ------------------------------------------------------------------------
\* exposeFunction
\* ------------------------------------------------------------------------
Names == 1 .. MaxNames

Functions == 1 .. MaxFunctions

IdleExpose ==
  /\ exposedFunctions = <<>>
  /\ exposing = {}
  /\ exposeCalls = 0
  /\ exposeOutcome = "none"

\* this.#exposedFunctions.has(name)
Has(name) == name \in DOMAIN exposedFunctions

\* this.#exposedFunctions.set(name, exposeable)
MapSet(map, name, value) ==
  [n \in DOMAIN map \cup {name} |-> IF n = name THEN value ELSE map[n]]

\* this.#exposedFunctions.delete(name)
MapDelete(map, name) == [n \in DOMAIN map \ {name} |-> map[n]]

\* Variant with a fault: no has(name) test, the binding is replaced.
ExposeFunctionMutantOverwrite(name, apply) ==
  /\ exposeCalls < MaxExposeCalls
  /\ exposedFunctions' = MapSet(exposedFunctions, name, apply)
  /\ exposing' = exposing \cup {name}
  /\ exposeCalls' = exposeCalls + 1
  /\ exposeOutcome' = "exposing"
  /\ UNCHANGED notExposeVars

\* exposeFunction(name, apply) up to its await: throws when the name is
\* already registered, else registers the function and calls expose().
ExposeFunction(name, apply) ==
  /\ IF Has(name)
     THEN /\ exposeOutcome' = "alreadyExists"
          /\ UNCHANGED <<exposedFunctions, exposing, exposeCalls>>
     ELSE /\ exposeCalls < MaxExposeCalls
          /\ exposedFunctions' = MapSet(exposedFunctions, name, apply)
          /\ exposing' = exposing \cup {name}
          /\ exposeCalls' = exposeCalls + 1
          /\ exposeOutcome' = "exposing"
  /\ UNCHANGED notExposeVars

\* await exposeable.expose() returns.
ExposeSucceeds(name) ==
  /\ name \in exposing
  /\ exposing' = exposing \ {name}
  /\ exposeOutcome' = "exposed"
  /\ UNCHANGED <<exposedFunctions, exposeCalls>>
  /\ UNCHANGED notExposeVars

\* await exposeable.expose() throws: the name is deleted and the error
\* rethrown.
ExposeFails(name) ==
  /\ name \in exposing
  /\ exposing' = exposing \ {name}
  /\ exposedFunctions' = MapDelete(exposedFunctions, name)
  /\ exposeOutcome' = "exposeFailed"
  /\ UNCHANGED exposeCalls
  /\ UNCHANGED notExposeVars

StepExpose ==
  \/ \E name \in Names, apply \in Functions : ExposeFunction(name, apply)
  \/ \E name \in Names : ExposeSucceeds(name)
  \/ \E name \in Names : ExposeFails(name)

\* ------------------------------------------------------------------------
\* Claims about BidiFrame
\* ------------------------------------------------------------------------

\* The first thing that happened to call c after it was made is the disposal
\* of the frame: the call was pending, its navigation condition not met and
\* its timeout not fired.
DisposedWhilePending(c) ==
  /\ callEvents[c] # <<>>
  /\ Head(callEvents[c]) = "dispose"

\* C4: a goto, setContent or waitForNavigation call that was pending when the
\* frame was disposed is rejected with the 'Frame detached' error: it never
\* resolves with a navigation response (nor settles in any other way), and it
\* does not stay pending for ever.
C4_DisposeRejectsPendingCalls ==
  /\ [](\A c \in Calls :
         DisposedWhilePending(c) => callState[c] \in {"pending", "rejectedDetached"})
  /\ \A c \in Calls :
       DisposedWhilePending(c) ~> (callState[c] = "rejectedDetached")

\* A goto disposed while pending was rejected, and the browser's answer that
\* came afterwards changed nothing.
C4_Witness ==
  \E c \in Calls :
    /\ DisposedWhilePending(c)
    /\ callKind[c] = "goto"
    /\ callState[c] = "rejectedDetached"
    /\ Len(callEvents[c]) >= 2

\* C5: a goto, setContent or waitForNavigation call on a frame that is already
\* disposed fails with an error and has no effect: no browsingContext.navigate
\* is sent, no page content is set, nothing is queued.
C5_DetachedCallsThrow ==
  [][\A c \in Calls, method \in NavigationMethods :
       (disposed /\ NavigationCall(c, method)) =>
         /\ callState'[c] = "threw"
         /\ navigateSent' = navigateSent
         /\ contentSet' = contentSet
         /\ microtasks' = microtasks]_vars

\* A goto and a setContent were called on a disposed frame.
C5_Witness ==
  /\ disposed
  /\ \E c \in Calls : callKind[c] = "goto" /\ callState[c] = "threw" /\ c \notin navigateSent
  /\ \E c \in Calls : callKind[c] = "setContent" /\ callState[c] = "threw" /\ c \notin contentSet

\* C6: exposeFunction with a name that is already registered throws 'already
\* exists', does not call expose() and leaves the registry as it is.
C6_ExposeExistingNameThrows ==
  [][\A name \in Names, apply \in Functions :
       (Has(name) /\ ExposeFunction(name, apply)) =>
         /\ exposeOutcome' = "alreadyExists"
         /\ exposedFunctions' = exposedFunctions
         /\ exposeCalls' = exposeCalls
         /\ exposing' = exposing]_vars

\* A call with a registered name threw while both names were registered.
C6_Witness ==
  /\ exposeOutcome = "alreadyExists"
  /\ DOMAIN exposedFunctions = Names

\* How a call settles when the event is the first that happens to it.
Outcome(event) ==
  IF event = "navigated" THEN "resolved"
  ELSE IF event = "timeout" THEN "rejectedTimeout"
  ELSE "rejectedDetached"

Values == 1 .. MaxValue

Arrays == UNION { [1 .. n -> Values] : n \in 0 .. MaxLength }

\* array[i] with the code's indices, which start at 0.
Get(a, i) == a[i + 1]

\* Variant with a fault: the signs are the wrong way round.
comparatorMutantReversed(a, b) == IF a < b THEN 1 ELSE (IF a > b THEN -1 ELSE 0)

\* function comparator(a, b) { return a < b ? -1 : (a > b ? 1 : 0); }
comparator(a, b) == IF a < b THEN -1 ELSE (IF a > b THEN 1 ELSE 0)

IdleArrays ==
  /\ array = <<>>
  /\ fixture = <<>>
  /\ arrayCall = [function |-> "none"]
  /\ sortStack = <<>>
  /\ apc = "idle"

\* The calls of 'removes elements': removeElement(copy, value, firstOnly).
RemoveElementCalls ==
  { [function |-> "removeElement", value |-> v, firstOnly |-> f] :
      v \in Values, f \in BOOLEAN }

\* The calls of 'sorts ranges': sortRange(copy, comparator, left, right,
\* first, first + count - 1); StartArrayUtilities keeps those with
\* left <= first <= first + count - 1 <= right, as the loops of the test do.
SortRangeCalls(a) ==
  { [function |-> "sortRange", left |-> l, right |-> r,
     sortedFrom |-> from, sortedTo |-> to] :
      l \in 0 .. Len(a) - 1, r \in 0 .. Len(a) - 1,
      from \in 0 .. Len(a) - 1, to \in 0 .. Len(a) - 1 }

StartArrayUtilities ==
  /\ array \in Arrays
  /\ fixture = array
  /\ arrayCall \in RemoveElementCalls \cup
       { c \in SortRangeCalls(array) :
           c.left <= c.sortedFrom /\ c.sortedFrom <= c.sortedTo /\ c.sortedTo <= c.right }
  /\ sortStack = <<>>
  /\ apc = "call"

\* array.indexOf(element): the first index holding element, -1 when none.
RECURSIVE IndexOfFrom(_, _, _)
IndexOfFrom(a, element, i) ==
  IF i >= Len(a) THEN -1
  ELSE IF Get(a, i) = element THEN i
  ELSE IndexOfFrom(a, element, i + 1)

indexOf(a, element) == IndexOfFrom(a, element, 0)

\* array.splice(index, 1)
Splice1(a, index) == SubSeq(a, 1, index) \o SubSeq(a, index + 2, Len(a))

\* for (i = index + 1; i < n; ++i) if (array[i] !== element)
\*   array[index++] = array[i];   array.length = index;
RECURSIVE RemoveLoop(_, _, _, _)
RemoveLoop(a, element, i, index) ==
  IF i >= Len(a) THEN SubSeq(a, 1, index)
  ELSE IF Get(a, i) # element
  THEN RemoveLoop([a EXCEPT ![index + 1] = Get(a, i)], element, i + 1, index + 1)
  ELSE RemoveLoop(a, element, i + 1, index)

\* Variant with a fault: firstOnly is ignored.
removeElementMutantFirstOnly(a, element, firstOnly) ==
  IF indexOf(a, element) = -1 THEN a
  ELSE Splice1(a, indexOf(a, element))

\* removeElement(array, element, firstOnly): the array afterwards.
removeElement(a, element, firstOnly) ==
  IF indexOf(a, element) = -1 THEN a
  ELSE IF firstOnly THEN Splice1(a, indexOf(a, element))
  ELSE RemoveLoop(a, element, indexOf(a, element) + 1, indexOf(a, element))

RemoveElement ==
  /\ apc = "call"
  /\ arrayCall.function = "removeElement"
  /\ array' = removeElement(array, arrayCall.value, arrayCall.firstOnly)
  /\ apc' = "done"
  /\ UNCHANGED <<fixture, arrayCall, sortStack>>
  /\ UNCHANGED notArrayVars

\* Variant with a fault: no temporary, the first element is lost.
swapMutantNoTemp(a, i1, i2) == [a EXCEPT ![i1 + 1] = Get(a, i2)]

\* swap(array, i1, i2)
swap(a, i1, i2) == [a EXCEPT ![i1 + 1] = Get(a, i2), ![i2 + 1] = Get(a, i1)]

\* partition: for (i = left; i < right; ++i)
\*   if (comparator(array[i], pivotValue) < 0) { swap(array, storeIndex, i); ++storeIndex; }
\* swap(array, right, storeIndex); return storeIndex;
RECURSIVE PartitionLoop(_, _, _, _, _)
PartitionLoop(a, pivotValue, i, right, storeIndex) ==
  IF i >= right THEN [array |-> swap(a, right, storeIndex), index |-> storeIndex]
  ELSE IF comparator(Get(a, i), pivotValue) < 0
  THEN PartitionLoop(swap(a, storeIndex, i), pivotValue, i + 1, right, storeIndex + 1)
  ELSE PartitionLoop(a, pivotValue, i + 1, right, storeIndex)

\* partition(array, comparator, left, right, pivotIndex)
partition(a, left, right, pivotIndex) ==
  PartitionLoop(swap(a, right, pivotIndex), Get(a, pivotIndex), left, right, left)

\* array.sort(comparator): insertion of each element after the elements that
\* do not compare greater (the sort is stable).
RECURSIVE InsertSorted(_, _)
InsertSorted(sorted, x) ==
  IF sorted = <<>> THEN <<x>>
  ELSE IF comparator(Head(sorted), x) > 0 THEN <<x>> \o sorted
  ELSE <<Head(sorted)>> \o InsertSorted(Tail(sorted), x)

RECURSIVE ArraySort(_)
ArraySort(a) ==
  IF a = <<>> THEN <<>>
  ELSE InsertSorted(ArraySort(SubSeq(a, 1, Len(a) - 1)), a[Len(a)])

\* sortRange: the whole array is sorted with array.sort when the range and
\* the window cover it.
CoversArray ==
  /\ arrayCall.left = 0
  /\ arrayCall.right = Len(array) - 1
  /\ arrayCall.sortedFrom = 0
  /\ arrayCall.sortedTo >= arrayCall.right

SortRangeWhole ==
  /\ apc = "call"
  /\ arrayCall.function = "sortRange"
  /\ CoversArray
  /\ array' = ArraySort(array)
  /\ apc' = "done"
  /\ UNCHANGED <<fixture, arrayCall, sortStack>>
  /\ UNCHANGED notArrayVars

\* sortRange: else quickSortRange(array, comparator, leftBound, rightBound,
\* sortWindowLeft, sortWindowRight).
SortRangeQuick ==
  /\ apc = "call"
  /\ arrayCall.function = "sortRange"
  /\ ~CoversArray
  /\ sortStack' = << <<arrayCall.left, arrayCall.right>> >>
  /\ apc' = "sorting"
  /\ UNCHANGED <<array, fixture, arrayCall>>
  /\ UNCHANGED notArrayVars

\* The recursive calls of one quickSortRange call, the one on the left part
\* first.
RecursiveCalls(left, right, pivotNewIndex) ==
  (IF arrayCall.sortedFrom < pivotNewIndex THEN << <<left, pivotNewIndex - 1>> >> ELSE <<>>)
    \o (IF pivotNewIndex < arrayCall.sortedTo THEN << <<pivotNewIndex + 1, right>> >> ELSE <<>>)

\* quickSortRange(array, comparator, left, right, ...): if (right <= left)
\* return;
QuickSortRangeReturn ==
  /\ apc = "sorting"
  /\ sortStack # <<>>
  /\ Head(sortStack)[2] <= Head(sortStack)[1]
  /\ sortStack' = Tail(sortStack)
  /\ UNCHANGED <<array, fixture, arrayCall, apc>>
  /\ UNCHANGED notArrayVars

\* quickSortRange: pivotIndex = floor(random() * (right - left)) + left, any
\* index of left .. right - 1; partition; recurse into the parts that overlap
\* the window.
QuickSortRangePartition ==
  /\ apc = "sorting"
  /\ sortStack # <<>>
  /\ Head(sortStack)[2] > Head(sortStack)[1]
  /\ \E pivotIndex \in Head(sortStack)[1] .. Head(sortStack)[2] - 1 :
       /\ array' = partition(array, Head(sortStack)[1], Head(sortStack)[2], pivotIndex).array
       /\ sortStack' =
            RecursiveCalls(Head(sortStack)[1], Head(sortStack)[2],
              partition(array, Head(sortStack)[1], Head(sortStack)[2], pivotIndex).index)
              \o Tail(sortStack)
  /\ UNCHANGED <<fixture, arrayCall, apc>>
  /\ UNCHANGED notArrayVars

\* The outermost quickSortRange returned: sortRange returns the array.
SortRangeReturn ==
  /\ apc = "sorting"
  /\ sortStack = <<>>
  /\ apc' = "done"
  /\ UNCHANGED <<array, fixture, arrayCall, sortStack>>
  /\ UNCHANGED notArrayVars

StepArrayUtilities ==
  \/ RemoveElement
  \/ SortRangeWhole
  \/ SortRangeQuick
  \/ QuickSortRangeReturn
  \/ QuickSortRangePartition
  \/ SortRangeReturn

\* ------------------------------------------------------------------------
\* Claims about ArrayUtilities
\* ------------------------------------------------------------------------

\* How often a value occurs in a list.
RECURSIVE Occurrences(_, _)
Occurrences(list, v) ==
  IF list = <<>> THEN 0
  ELSE (IF Head(list) = v THEN 1 ELSE 0) + Occurrences(Tail(list), v)

\* Two lists hold the same elements, each as often.
SameElements(s, t) == \A v \in Values : Occurrences(s, v) = Occurrences(t, v)

\* The list without the elements equal to v, the others in their order.
Without(list, v) == SelectSeq(list, LAMBDA x : x # v)

\* C7: removeElement(array, value, firstOnly) removes exactly the first
\* occurrence of value when firstOnly is true and every occurrence when it is
\* false; the other elements keep their order, and an array without value is
\* left as it is.
C7_RemoveElement ==
  (apc = "done" /\ arrayCall.function = "removeElement") =>
    IF \A k \in 1 .. Len(fixture) : fixture[k] # arrayCall.value
    THEN array = fixture
    ELSE IF arrayCall.firstOnly
    THEN \E k \in 1 .. Len(fixture) :
           /\ fixture[k] = arrayCall.value
           /\ \A j \in 1 .. k - 1 : fixture[j] # arrayCall.value
           /\ array = SubSeq(fixture, 1, k - 1) \o SubSeq(fixture, k + 1, Len(fixture))
    ELSE array = Without(fixture, arrayCall.value)

\* Every occurrence was removed from an array that held the value more than
\* once, among other elements.
C7_Witness ==
  /\ apc = "done"
  /\ arrayCall.function = "removeElement"
  /\ ~arrayCall.firstOnly
  /\ Occurrences(fixture, arrayCall.value) >= 2
  /\ Len(array) >= 2

\* The part of a list between the code's indices from and to, both included.
Slice(list, from, to) == SubSeq(list, from + 1, to + 1)

\* C8: sortRange with left <= sortedFrom <= sortedTo <= right leaves every
\* element below left and above right where it is, and the elements in
\* [left, right] afterwards are a permutation of those before.
C8_SortRangeStaysInRange ==
  (apc = "done" /\ arrayCall.function = "sortRange") =>
    /\ Len(array) = Len(fixture)
    /\ \A i \in 0 .. Len(fixture) - 1 :
         (i < arrayCall.left \/ i > arrayCall.right) => Get(array, i) = Get(fixture, i)
    /\ SameElements(Slice(array, arrayCall.left, arrayCall.right),
                    Slice(fixture, arrayCall.left, arrayCall.right))

\* A range strictly inside the array was rearranged.
C8_Witness ==
  /\ apc = "done"
  /\ arrayCall.function = "sortRange"
  /\ arrayCall.left > 0
  /\ arrayCall.right < Len(fixture) - 1
  /\ array # fixture

\* The list in ascending order of its numbers.
RECURSIVE InsertAscending(_, _)
InsertAscending(sorted, x) ==
  IF sorted = <<>> THEN <<x>>
  ELSE IF x <= Head(sorted) THEN <<x>> \o sorted
  ELSE <<Head(sorted)>> \o InsertAscending(Tail(sorted), x)

RECURSIVE Ascending(_)
Ascending(list) ==
  IF list = <<>> THEN <<>>
  ELSE InsertAscending(Ascending(Tail(list)), Head(list))

\* What a full sort makes of the range [left, right] of the fixture.
SortedMiddle == Ascending(Slice(fixture, arrayCall.left, arrayCall.right))

\* C9: after sortRange the positions sortedFrom .. sortedTo hold the elements
\* a full sort of [left, right] puts there, in sorted order, and the positions
\* after sortedTo up to right hold, in some order, the elements the full sort
\* puts after sortedTo.
C9_SortRangeWindowSorted ==
  (apc = "done" /\ arrayCall.function = "sortRange") =>
    /\ Slice(array, arrayCall.sortedFrom, arrayCall.sortedTo) =
         Slice(SortedMiddle, arrayCall.sortedFrom - arrayCall.left,
               arrayCall.sortedTo - arrayCall.left)
    /\ Ascending(Slice(array, arrayCall.sortedTo + 1, arrayCall.right)) =
         Slice(SortedMiddle, arrayCall.sortedTo + 1 - arrayCall.left,
               arrayCall.right - arrayCall.left)

\* A window of two positions was sorted by quickSortRange while the elements
\* after it were left out of order.
C9_Witness ==
  /\ apc = "done"
  /\ arrayCall.function = "sortRange"
  /\ ~CoversArray
  /\ arrayCall.sortedFrom < arrayCall.sortedTo
  /\ arrayCall.sortedTo + 1 < arrayCall.right
  /\ Slice(array, arrayCall.sortedTo + 1, arrayCall.right)
       # Ascending(Slice(array, arrayCall.sortedTo + 1, arrayCall.right))
  /\ array # fixture

\* ========================================================================
\* Part 4: the visual logging driver (LoggingDriver)
\* ========================================================================

\* The DOM elements with a logging configuration, the non-DOM loggables, and
\* the documents: the window's own document and the document of a frame.
LoggableElements == 1 .. MaxElements

NonDomLoggables == (MaxElements + 1) .. (MaxElements + MaxLoggables)

Loggables == LoggableElements \cup NonDomLoggables

Documents == {"document", "frame"}

\* element.tagName: element 1 is a SELECT, element 2 an OPTION of it, the
\* others are plain elements.
TagName(e) == IF e = 1 THEN "SELECT" ELSE IF e = 2 THEN "OPTION" ELSE "DIV"

\* The loggable parent of an element (the SELECT of the OPTION), and the
\* parent a non-DOM loggable is registered with: none for the first, the
\* loggable before it for the others.
ParentOf(l) ==
  IF l \in LoggableElements
  THEN (IF TagName(l) = "OPTION" THEN 1 ELSE None)
  ELSE (IF l = MaxElements + 1 THEN None ELSE l - 1)

\* element.ownerDocument
DocumentOf(e) == IF e <= 2 THEN "document" ELSE "frame"

\* The members of a list.
Range(list) == { list[i] : i \in 1 .. Len(list) }

\* The module as loaded: not logging, no throttler, no documents.
IdleDriver ==
  /\ logging = FALSE
  /\ processingThrottler = "null"
  /\ scheduled = FALSE
  /\ staleRuns = 0
  /\ documents = <<>>
  /\ observed = {}
  /\ documentHidden = FALSE
  /\ selectOpen = {}
  /\ loggingState = [l \in Loggables |-> [impressionLogged |-> FALSE, processed |-> FALSE]]
  /\ registry = <<>>
  /\ impressions = [l \in Loggables |-> 0]
  /\ attachments = [e \in LoggableElements |-> 0]
  /\ ranSinceStop = "no"

\* The driver as loaded, in a page none of the elements is in yet.
IdleLogging == IdleDriver /\ dom = [e \in LoggableElements |-> "detached"]

\* The driver as loaded, in a page that shows all the elements.
IdleLoggingOnPage == IdleDriver /\ dom = [e \in LoggableElements |-> "visible"]

\* stopLogging returned and neither startLogging nor addDocument was called
\* since (also: nothing was called yet).
Stopped == processingThrottler = "null" /\ documents = <<>>

\* getDomState(documents).loggables: the loggable elements found under the
\* body of each listed document, document by document.
RECURSIVE ElementsOf(_, _)
ElementsOf(document, e) ==
  IF e > MaxElements THEN <<>>
  ELSE (IF DocumentOf(e) = document /\ dom[e] # "detached" THEN <<e>> ELSE <<>>)
         \o ElementsOf(document, e + 1)

RECURSIVE getDomState(_)
getDomState(docs) ==
  IF docs = <<>> THEN <<>>
  ELSE ElementsOf(Head(docs), 1) \o getDomState(Tail(docs))

\* visibleOverlap(element, viewportRectFor(element)) is not null
overlap(e) == dom[e] = "visible"

\* element.tagName === 'OPTION' && loggingState.parent?.selectOpen
visibleSelectOption(e) == TagName(e) = "OPTION" /\ ParentOf(e) \in selectOpen

\* Variant with a fault: impressionLogged is not set.
ProcessElementMutantNoFlag(run, e) ==
  LET log == ~run.ls[e].impressionLogged /\ (overlap(e) \/ visibleSelectOption(e))
      attach == ~run.ls[e].processed
  IN [ls |-> [run.ls EXCEPT ![e] =
                [impressionLogged |-> @.impressionLogged, processed |-> TRUE]],
      batch |-> IF log THEN Append(run.batch, e) ELSE run.batch,
      att |-> IF attach THEN [run.att EXCEPT ![e] = @ + 1] ELSE run.att,
      reg |-> run.reg]

\* Variant with a fault: processed is set only once the impression is logged.
ProcessElementMutantProcessedLate(run, e) ==
  LET log == ~run.ls[e].impressionLogged /\ (overlap(e) \/ visibleSelectOption(e))
      attach == ~run.ls[e].processed
  IN [ls |-> [run.ls EXCEPT ![e] =
                [impressionLogged |-> @.impressionLogged \/ log,
                 processed |-> @.impressionLogged \/ log]],
      batch |-> IF log THEN Append(run.batch, e) ELSE run.batch,
      att |-> IF attach THEN [run.att EXCEPT ![e] = @ + 1] ELSE run.att,
      reg |-> run.reg]

\* One iteration of the loop over the DOM loggables. run holds the logging
\* states (ls), visibleLoggables (batch), the listener attachments so far
\* (att) and the registry (reg). The logging state of a loggable is the one
\* getOrCreateLoggingState keeps for it. The block under veDebuggingEnabled
\* only draws the debugging overlay and is left out.
ProcessElement(run, e) ==
  LET log == ~run.ls[e].impressionLogged /\ (overlap(e) \/ visibleSelectOption(e))
      attach == ~run.ls[e].processed
  IN [ls |-> [run.ls EXCEPT ![e] =
                [impressionLogged |-> @.impressionLogged \/ log, processed |-> TRUE]],
      batch |-> IF log THEN Append(run.batch, e) ELSE run.batch,
      att |-> IF attach THEN [run.att EXCEPT ![e] = @ + 1] ELSE run.att,
      reg |-> run.reg]

RECURSIVE ProcessElements(_, _)
ProcessElements(list, run) ==
  IF list = <<>> THEN run
  ELSE ProcessElements(Tail(list), ProcessElement(run, Head(list)))

\* unregisterLoggable(loggable)
unregisterLoggable(reg, l) == SelectSeq(reg, LAMBDA x : x # l)

\* Variant with a fault: the loggable stays registered.
ProcessNonDomLoggableMutantKeeps(run, l) ==
  LET visible == ParentOf(l) = None \/ run.ls[ParentOf(l)].impressionLogged
  IN IF ~visible THEN run
     ELSE [ls |-> [run.ls EXCEPT ![l].impressionLogged = TRUE],
           batch |-> Append(run.batch, l),
           att |-> run.att,
           reg |-> run.reg]

\* One iteration of the loop over the non-DOM loggables.
ProcessNonDomLoggable(run, l) ==
  LET visible == ParentOf(l) = None \/ run.ls[ParentOf(l)].impressionLogged
  IN IF ~visible THEN run
     ELSE [ls |-> [run.ls EXCEPT ![l].impressionLogged = TRUE],
           batch |-> Append(run.batch, l),
           att |-> run.att,
           reg |-> unregisterLoggable(run.reg, l)]

RECURSIVE ProcessNonDomLoggables(_, _)
ProcessNonDomLoggables(list, run) ==
  IF list = <<>> THEN run
  ELSE ProcessNonDomLoggables(Tail(list), ProcessNonDomLoggable(run, Head(list)))

\* process() up to its call of logImpressions, over the documents docs.
ProcessRun(docs) ==
  LET start == [ls |-> loggingState, batch |-> <<>>, att |-> attachments, reg |-> registry]
  IN IF documentHidden THEN start
     ELSE ProcessNonDomLoggables(registry, ProcessElements(getDomState(docs), start))

\* logImpressions(visibleLoggables): every loggable of the batch is reported.
logImpressions(batch) ==
  [l \in Loggables |->
     impressions[l] + Cardinality({ i \in 1 .. Len(batch) : batch[i] = l })]

\* process()
process(docs) ==
  /\ loggingState' = ProcessRun(docs).ls
  /\ attachments' = ProcessRun(docs).att
  /\ registry' = ProcessRun(docs).reg
  /\ impressions' = logImpressions(ProcessRun(docs).batch)

\* What a process() run started by a throttler leaves in ranSinceStop: whether
\* it ran after stopLogging returned with no startLogging or addDocument
\* since, and whether it then handed a loggable to logImpressions.
RanSinceStop ==
  IF ~Stopped THEN "no"
  ELSE IF ProcessRun(documents).batch # <<>> \/ ranSinceStop = "reported" THEN "reported"
  ELSE "ran"

\* addDocument(document): lists the document, processes it when it is
\* interactive or complete, and listens for its changes. process() runs
\* without interruption up to its last await; what follows the await here
\* only adds listeners that call scheduleProcessing.
addDocument(document, ready) ==
  /\ Len(documents) < MaxDocuments
  /\ documents' = Append(documents, document)
  /\ IF ready THEN process(Append(documents, document))
     ELSE UNCHANGED <<loggingState, attachments, registry, impressions>>
  /\ observed' = observed \cup {document}

AddDocument(document, ready) ==
  /\ addDocument(document, ready)
  /\ ranSinceStop' = "no"
  /\ UNCHANGED <<logging, processingThrottler, scheduled, staleRuns, documentHidden,
                 dom, selectOpen>>
  /\ UNCHANGED notLoggingVars

\* startLogging(): a new processing throttler (what the old one holds stays
\* with the old one), then addDocument(document).
StartLogging(ready) ==
  /\ logging' = TRUE
  /\ processingThrottler' = "throttler"
  /\ scheduled' = FALSE
  /\ staleRuns' = IF scheduled THEN staleRuns + 1 ELSE staleRuns
  /\ addDocument("document", ready)
  /\ ranSinceStop' = "no"
  /\ UNCHANGED <<documentHidden, dom, selectOpen>>
  /\ UNCHANGED notLoggingVars

\* stopLogging()
StopLogging ==
  /\ logging' = FALSE
  /\ registry' = <<>>
  /\ observed' = observed \ Range(documents)
  /\ documents' = <<>>
  /\ processingThrottler' = "null"
  /\ scheduled' = FALSE
  /\ staleRuns' = IF scheduled THEN staleRuns + 1 ELSE staleRuns
  /\ ranSinceStop' = "no"
  /\ UNCHANGED <<documentHidden, dom, selectOpen, loggingState, impressions, attachments>>
  /\ UNCHANGED notLoggingVars

\* Variant with a fault: no test for a missing throttler.
scheduleProcessingMutantNoCheck ==
  /\ scheduled \/ staleRuns < MaxPending
  /\ scheduled' = TRUE

\* scheduleProcessing(): returns when there is no throttler, else schedules
\* process() on it; a throttler holds one process at a time.
scheduleProcessing ==
  IF processingThrottler = "null" THEN UNCHANGED scheduled
  ELSE /\ scheduled \/ staleRuns < MaxPending
       /\ scheduled' = TRUE

ScheduleProcessing ==
  /\ scheduleProcessing
  /\ UNCHANGED <<logging, processingThrottler, staleRuns, documents, observed,
                 documentHidden, dom, selectOpen, loggingState, registry, impressions,
                 attachments, ranSinceStop>>
  /\ UNCHANGED notLoggingVars

\* A 'visibilitychange' or 'scroll' event, or a mutation record, of an
\* observed document: its listener is scheduleProcessing.
DocumentEvent(document) ==
  /\ document \in observed
  /\ ScheduleProcessing

\* onSelectOpen, the listener process() attaches to a SELECT.
SelectOpened(e) ==
  /\ TagName(e) = "SELECT"
  /\ attachments[e] > 0
  /\ dom[e] # "detached"
  /\ IF e \in selectOpen THEN UNCHANGED <<selectOpen, scheduled>>
     ELSE selectOpen' = selectOpen \cup {e} /\ scheduleProcessing
  /\ UNCHANGED <<logging, processingThrottler, staleRuns, documents, observed,
                 documentHidden, dom, loggingState, registry, impressions, attachments, ranSinceStop>>
  /\ UNCHANGED notLoggingVars

\* The current throttler runs the process() it holds.
RunScheduledProcess ==
  /\ scheduled
  /\ scheduled' = FALSE
  /\ process(documents)
  /\ ranSinceStop' = RanSinceStop
  /\ UNCHANGED <<logging, processingThrottler, staleRuns, documents, observed,
                 documentHidden, dom, selectOpen>>
  /\ UNCHANGED notLoggingVars

\* A throttler that was replaced or dropped runs the process() it holds.
RunStaleProcess ==
  /\ staleRuns > 0
  /\ staleRuns' = staleRuns - 1
  /\ process(documents)
  /\ ranSinceStop' = RanSinceStop
  /\ UNCHANGED <<logging, processingThrottler, scheduled, documents, observed,
                 documentHidden, dom, selectOpen>>
  /\ UNCHANGED notLoggingVars

\* registerLoggable(loggable, config, parent)
RegisterLoggable(l) ==
  /\ impressions[l] < MaxImpressions
  /\ registry' = IF l \in Range(registry) THEN registry ELSE Append(registry, l)
  /\ UNCHANGED <<logging, processingThrottler, scheduled, staleRuns, documents, observed,
                 documentHidden, dom, selectOpen, loggingState, impressions, attachments, ranSinceStop>>
  /\ UNCHANGED notLoggingVars

\* The page changes: an element is added to or removed from its document, or
\* scrolled into or out of the viewport. An OPTION is in the document only
\* inside its SELECT.
DomChange(e, status) ==
  /\ status # dom[e]
  /\ (TagName(e) = "OPTION" /\ status # "detached") => dom[ParentOf(e)] # "detached"
  /\ dom' = [x \in LoggableElements |->
       IF x = e THEN status
       ELSE IF status = "detached" /\ ParentOf(x) = e THEN "detached"
       ELSE dom[x]]
  /\ UNCHANGED <<logging, processingThrottler, scheduled, staleRuns, documents, observed,
                 documentHidden, selectOpen, loggingState, registry, impressions,
                 attachments, ranSinceStop>>
  /\ UNCHANGED notLoggingVars

\* The window is hidden or shown again (document.hidden).
HiddenChange ==
  /\ documentHidden' = ~documentHidden
  /\ UNCHANGED <<logging, processingThrottler, scheduled, staleRuns, documents, observed,
                 dom, selectOpen, loggingState, registry, impressions, attachments, ranSinceStop>>
  /\ UNCHANGED notLoggingVars

\* The calls into the driver and the callbacks of the browser.
StepDriver ==
  \/ \E ready \in BOOLEAN : StartLogging(ready)
  \/ \E document \in Documents, ready \in BOOLEAN : AddDocument(document, ready)
  \/ StopLogging
  \/ ScheduleProcessing
  \/ \E document \in Documents : DocumentEvent(document)
  \/ \E e \in LoggableElements : SelectOpened(e)
  \/ RunScheduledProcess
  \/ RunStaleProcess
  \/ HiddenChange

\* ------------------------------------------------------------------------
\* Claims about the logging driver
\* ------------------------------------------------------------------------

\* C13: a DOM loggable element is in at most one logImpressions batch (and
\* once in it). A run reports an element only when its impressionLogged flag
\* is false and it is visible (it overlaps the viewport or is an OPTION of an
\* open SELECT), the flag is set in the same step, and it is never reset.
C13_ElementReportedAtMostOnce ==
  /\ [](\A e \in LoggableElements :
          impressions[e] = IF loggingState[e].impressionLogged THEN 1 ELSE 0)
  /\ [][\A e \in LoggableElements :
          impressions'[e] # impressions[e] =>
            /\ ~loggingState[e].impressionLogged
            /\ overlap(e) \/ visibleSelectOption(e)
            /\ loggingState'[e].impressionLogged]_vars
  /\ [][\A e \in LoggableElements :
          loggingState[e].impressionLogged => loggingState'[e].impressionLogged]_vars

\* An element reported once is visible in a document that is listed twice,
\* after the driver was stopped and started again.
C13_Witness ==
  \E e \in LoggableElements :
    /\ impressions[e] = 1
    /\ dom[e] = "visible"
    /\ ~documentHidden
    /\ documents = <<DocumentOf(e), DocumentOf(e)>>
    /\ logging
    /\ staleRuns > 0

\* C14 as stated: a non-DOM loggable is reported at most once, whatever is
\* registered and whenever process() runs.
C14_NonDomReportedAtMostOnce ==
  \A l \in NonDomLoggables : impressions[l] <= 1

\* C14, amended: a non-DOM loggable is reported once for each time it is
\* registered and found visible: the run that reports it finds it registered,
\* reports it once, marks its impression logged and unregisters it in the
\* same step, so that no run reports it again unless it is registered again.
C14_NonDomReportedOncePerRegistration ==
  /\ [][\A l \in NonDomLoggables :
          impressions'[l] # impressions[l] =>
            /\ impressions'[l] = impressions[l] + 1
            /\ l \in Range(registry)
            /\ l \notin Range(registry')
            /\ ParentOf(l) # None => loggingState'[ParentOf(l)].impressionLogged
            /\ loggingState'[l].impressionLogged]_vars
  /\ [](\A l \in NonDomLoggables :
          impressions[l] > 0 <=> loggingState[l].impressionLogged)

\* A loggable with a parent was reported, registered again and reported again.
C14_Witness ==
  \E l \in NonDomLoggables :
    /\ ParentOf(l) # None
    /\ impressions[l] = 2
    /\ l \notin Range(registry)

\* A step that runs process(): started by a throttler, by addDocument or by
\* startLogging for a document that is interactive or complete.
ProcessRan ==
  \/ RunScheduledProcess
  \/ RunStaleProcess
  \/ \E document \in Documents : AddDocument(document, TRUE)
  \/ StartLogging(TRUE)

\* C15: listeners are attached to a loggable element exactly once: the first
\* run of process() that sees the element, visible or not, attaches them and
\* sets its processed flag; the flag is never reset; no later run attaches
\* listeners again.
C15_ListenersAttachedOnce ==
  /\ [](\A e \in LoggableElements :
          attachments[e] = IF loggingState[e].processed THEN 1 ELSE 0)
  /\ [][\A e \in LoggableElements :
          loggingState[e].processed => loggingState'[e].processed]_vars
  /\ [][(ProcessRan /\ ~documentHidden) =>
          \A e \in Range(getDomState(documents')) :
            loggingState'[e].processed /\ attachments'[e] = 1]_vars

\* An element that was never visible to a run has its listeners, the driver
\* having been stopped and started again since.
C15_Witness ==
  \E e \in LoggableElements :
    /\ attachments[e] = 1
    /\ ~loggingState[e].impressionLogged
    /\ dom[e] = "offscreen"
    /\ logging
    /\ staleRuns > 0
    /\ DocumentOf(e) \in Range(documents)

\* C16 as stated: after stopLogging returned, and until startLogging or
\* addDocument is called, no process() run executes and no impression is
\* logged.
C16_NoRunAfterStopLogging ==
  /\ [](Stopped => ranSinceStop = "no")
  /\ [][(Stopped /\ Stopped') => impressions' = impressions]_vars

\* C16, amended: stopLogging drops the throttler without cancelling the run
\* it holds. After stopLogging returned, and until startLogging or
\* addDocument is called, scheduleProcessing schedules nothing, and a run
\* that was scheduled before still executes: it finds no document, so it
\* reports no DOM element and attaches no listener, and it reports the
\* visible non-DOM loggables registered since stopLogging.
C16_NothingScheduledAfterStopLogging ==
  /\ [](Stopped => ~logging /\ ~scheduled)
  /\ [][(logging /\ ~logging') =>
          /\ Stopped'
          /\ registry' = <<>>
          /\ staleRuns' = IF scheduled THEN staleRuns + 1 ELSE staleRuns]_vars
  /\ [][(Stopped /\ Stopped') =>
          /\ staleRuns' <= staleRuns
          /\ attachments' = attachments
          /\ \A e \in LoggableElements : impressions'[e] = impressions[e]
          /\ \A l \in NonDomLoggables :
               impressions'[l] # impressions[l] => l \in Range(registry)]_vars

\* A run executed after stopLogging and reported a non-DOM loggable, and not
\* the visible element that was never reported.
C16_Witness ==
  /\ Stopped
  /\ ranSinceStop = "reported"
  /\ ~documentHidden
  /\ \E e \in LoggableElements : dom[e] = "visible" /\ impressions[e] = 0

\* ========================================================================
\* Specifications
\* ========================================================================

InitInitiators == StartInitiators /\ IdleNavigation /\ IdleExpose /\ IdleArrays /\ IdleLogging

NextInitiators == StepInitiators

SpecInitiators == InitInitiators /\ [][NextInitiators]_vars

InitBidiFrame == IdleInitiators /\ IdleNavigation /\ IdleExpose /\ IdleArrays /\ IdleLogging

NextBidiFrame == StepNavigation

SpecBidiFrame == InitBidiFrame /\ [][NextBidiFrame]_vars

\* The event loop runs every queued promise reaction.
SpecBidiFrameFair == SpecBidiFrame /\ WF_vars(RunMicrotask)

InitExposeFunction == IdleInitiators /\ IdleNavigation /\ IdleExpose /\ IdleArrays /\ IdleLogging

NextExposeFunction == StepExpose

SpecExposeFunction == InitExposeFunction /\ [][NextExposeFunction]_vars

InitArrayUtilities == IdleInitiators /\ IdleNavigation /\ IdleExpose /\ StartArrayUtilities /\ IdleLogging

NextArrayUtilities == StepArrayUtilities

SpecArrayUtilities == InitArrayUtilities /\ [][NextArrayUtilities]_vars

InitLoggingDriver == IdleInitiators /\ IdleNavigation /\ IdleExpose /\ IdleArrays /\ IdleLogging

\* The driver in a page whose elements come, go and scroll; nothing registers
\* non-DOM loggables.
NextLoggingDriver ==
  \/ StepDriver
  \/ \E e \in LoggableElements, status \in {"detached", "offscreen", "visible"} :
       DomChange(e, status)

SpecLoggingDriver == InitLoggingDriver /\ [][NextLoggingDriver]_vars

\* The driver in a page that shows all its elements and does not change,
\* with non-DOM loggables being registered.
InitNonDomLoggables ==
  IdleInitiators /\ IdleNavigation /\ IdleExpose /\ IdleArrays /\ IdleLoggingOnPage

NextNonDomLoggables ==
  \/ StepDriver
  \/ \E l \in NonDomLoggables : RegisterLoggable(l)

SpecNonDomLoggables == InitNonDomLoggables /\ [][NextNonDomLoggables]_vars

====
